---- MODULE Spec2Model ----
\* Model of the jobs service of go-travis (src/jobs.go) and of the request
\* round-trip scenario exercised by src/request_integration_test.go.
\*
\* Every caller runs one call at a time.  A call that reaches the transport is
\* split at the blocking round trip: the first action runs the handler up to the
\* call of client.Do, the second one takes what Do reports and runs the handler
\* to its return statement.  Calls of different callers interleave freely.
EXTENDS Integers, Sequences, FiniteSets, TLC

\* ---------------------------------------------------------------- bounds
MaxId == 1          \* job/build identifiers are 1..MaxId
MaxIdsLen == 1      \* longest Ids slice of a JobFindOptions
MaxPage == 1        \* pagination parameter values are 0..MaxPage
MaxRequests == 4    \* requests the server creates in one run

Callers == {"c1", "c2"}

\* ---------------------------------------------------------------- values
NoError == "nil"
ErrValidation == "more than one value set in provided JobFindOptions instance"
ErrURL == "url"
ErrRequest == "request"
TransportErrors == {"connection", "decode", "context"}

Statuses == {200, 202, 404}

\* *http.Response: nil, or a response with its status
NilResp == [nil |-> TRUE, StatusCode |-> 0]
Resp(s) == [nil |-> FALSE, StatusCode |-> s]
Responses == {NilResp} \cup {Resp(s) : s \in Statuses}

\* Job (declared outside src/jobs.go): the record the API describes, by its id
ZeroJob == [Id |-> 0]
Jobs == {[Id |-> i] : i \in 0..MaxId}

\* *Job
NilJob == [nil |-> TRUE, v |-> ZeroJob]
JobPtr(j) == [nil |-> FALSE, v |-> j]

\* []Job and []uint: a nil slice differs from an empty one
NilSlice == [nil |-> TRUE, elems |-> <<>>]
Slice(s) == [nil |-> FALSE, elems |-> s]

RECURSIVE SeqsUpTo(_, _)
SeqsUpTo(S, n) ==
    IF n = 0 THEN {<<>>}
    ELSE LET shorter == SeqsUpTo(S, n - 1)
         IN shorter \cup {Append(s, x) : s \in shorter, x \in S}

UintSlices == {NilSlice} \cup {Slice(s) : s \in SeqsUpTo(1..MaxId, MaxIdsLen)}
JobSlices == {NilSlice, Slice(<<[Id |-> 1]>>)}

\* ListOptions (declared outside src/jobs.go): the pagination parameters
ListOptions == [Page : 0..MaxPage]
ZeroListOptions == [Page |-> 0]

States == {"", "passed"}
Queues == {"", "builds.linux"}

JobFindOptions ==
    [ListOptions : ListOptions, Ids : UintSlices, State : States, Queue : Queues]
ZeroJobFindOptions ==
    [ListOptions |-> ZeroListOptions, Ids |-> NilSlice, State |-> "", Queue |-> ""]

\* *JobFindOptions
NilOpt == [nil |-> TRUE, v |-> ZeroJobFindOptions]
OptPtr(o) == [nil |-> FALSE, v |-> o]
OptPtrs == {NilOpt} \cup {OptPtr(o) : o \in JobFindOptions}

\* ------------------------------------------------------- options validator
\* structs.New(jfo).Fields(): the exported top-level fields, the embedded
\* ListOptions among them
Fields == {"ListOptions", "Ids", "State", "Queue"}

\* field.IsZero(): reflect.DeepEqual with the zero value of the field's type
IsZero(jfo, f) ==
    CASE f = "ListOptions" -> jfo.ListOptions = ZeroListOptions
      [] f = "Ids" -> jfo.Ids.nil
      [] f = "State" -> jfo.State = ""
      [] f = "Queue" -> jfo.Queue = ""

IsValidSkipsEmbedded(jfo) ==
    LET nonZeroValues ==
            Cardinality({f \in Fields \ {"ListOptions"} : ~IsZero(jfo, f)})
    IN nonZeroValues = 0 \/ nonZeroValues = 1

IsValid(jfo) ==
    LET nonZeroValues == Cardinality({f \in Fields : ~IsZero(jfo, f)})
    IN nonZeroValues = 0 \/ nonZeroValues = 1

\* ------------------------------------------------------- collaborators
\* The query string of a request, by key; an empty value is an omitted key.
EmptyQuery == [page |-> 0, ids |-> <<>>, state |-> "", queue |-> ""]

\* urlWithOptions(path, opt): the path with opt's non-default fields encoded
\* into the query string (omitempty drops nil and empty slices alike)
urlWithOptions(path, opt) ==
    [path |-> path,
     query |-> IF opt.nil THEN EmptyQuery
               ELSE [page |-> opt.v.ListOptions.Page,
                     ids |-> opt.v.Ids.elems,
                     state |-> opt.v.State,
                     queue |-> opt.v.Queue]]

\* client.NewRequest(method, u, nil, nil)
NewRequest(method, u) == [method |-> method, url |-> u]
NoRequest == [method |-> "", url |-> [path |-> <<>>, query |-> EmptyQuery]]

\* client.Do(ctx, req, v): one round trip.  It reports a response (or none),
\* an error (or none) and what it decoded into v before it returned; with
\* v = nil nothing is decoded.
DoOutcomes(decodes) ==
    [resp : Responses,
     err : {NoError} \cup TransportErrors,
     job : IF decodes = "job" THEN Jobs ELSE {ZeroJob},
     jobs : IF decodes = "jobs" THEN JobSlices ELSE {NilSlice}]
NoOutcome == [resp |-> NilResp, err |-> NoError, job |-> ZeroJob, jobs |-> NilSlice]

\* ---------------------------------------------------------------- state
VARIABLES
    pc,       \* per caller: "idle", "inflight" (blocked in client.Do), "done"
    call,     \* per caller: the operation called and its arguments
    steps,    \* per caller: what the running call has executed so far
    req,      \* per caller: the request handed to client.Do
    trips,    \* per caller: round trips of the running call
    do,       \* per caller: what client.Do reported
    ret,      \* per caller: what the call returned
    tpc,      \* per test: position in the test function
    created,  \* per test: what the create call returned
    found,    \* per test: what the find call returned
    store,    \* server: the requests it holds, as <<repository, id>>
    nextId    \* server: the id of the next created request

jobVars == <<pc, call, steps, req, trips, do, ret>>
reqVars == <<tpc, created, found, store, nextId>>
vars == <<pc, call, steps, req, trips, do, ret, tpc, created, found, store, nextId>>

NoCall == [op |-> "", id |-> 0, opt |-> NilOpt, uerr |-> NoError, rerr |-> NoError]
NoRet == [job |-> NilJob, jobs |-> NilSlice, resp |-> NilResp, err |-> NoError,
          valid |-> FALSE]

Ret(job, jobs, resp, err) ==
    [job |-> job, jobs |-> jobs, resp |-> resp, err |-> err, valid |-> FALSE]

\* the handler returns before it reaches client.Do
ReturnEarly(c, cl, st, r) ==
    /\ pc' = [pc EXCEPT ![c] = "done"]
    /\ call' = [call EXCEPT ![c] = cl]
    /\ steps' = [steps EXCEPT ![c] = st]
    /\ ret' = [ret EXCEPT ![c] = r]
    /\ UNCHANGED <<req, trips, do>>
    /\ UNCHANGED reqVars

\* the handler calls client.Do and blocks in it
CallDo(c, cl, st, rq) ==
    /\ pc' = [pc EXCEPT ![c] = "inflight"]
    /\ call' = [call EXCEPT ![c] = cl]
    /\ steps' = [steps EXCEPT ![c] = st \cup {"Do"}]
    /\ req' = [req EXCEPT ![c] = rq]
    /\ trips' = [trips EXCEPT ![c] = @ + 1]
    /\ UNCHANGED <<do, ret>>
    /\ UNCHANGED reqVars

\* client.Do reported d and the handler returns r
ReturnAfterDo(c, d, r) ==
    /\ pc' = [pc EXCEPT ![c] = "done"]
    /\ do' = [do EXCEPT ![c] = d]
    /\ ret' = [ret EXCEPT ![c] = r]
    /\ UNCHANGED <<call, steps, req, trips>>
    /\ UNCHANGED reqVars

URLErrors == {NoError, ErrURL}
RequestErrors == {NoError, ErrRequest}

\* ------------------------------------------------------------ jobs service
\* jfo.IsValid(), called by a caller on its own options record
CheckOptions(c, jfo) ==
    /\ pc[c] = "idle"
    /\ pc' = [pc EXCEPT ![c] = "done"]
    /\ call' = [call EXCEPT ![c] = [NoCall EXCEPT !.op = "IsValid", !.opt = OptPtr(jfo)]]
    /\ steps' = [steps EXCEPT ![c] = {"IsValid"}]
    /\ ret' = [ret EXCEPT ![c] = [NoRet EXCEPT !.valid = IsValid(jfo)]]
    /\ UNCHANGED <<req, trips, do>>
    /\ UNCHANGED reqVars

\* Get, up to its call of client.Do
Get(c, id) ==
    /\ pc[c] = "idle"
    /\ \E uerr \in URLErrors, rerr \in RequestErrors :
         LET cl == [op |-> "Get", id |-> id, opt |-> NilOpt, uerr |-> uerr,
                    rerr |-> IF uerr # NoError THEN NoError ELSE rerr]
             u == urlWithOptions(<<"jobs", id>>, NilOpt)
         IN IF uerr # NoError
            THEN ReturnEarly(c, cl, {"urlWithOptions"},
                             Ret(NilJob, NilSlice, NilResp, uerr))
            ELSE IF rerr # NoError
            THEN ReturnEarly(c, cl, {"urlWithOptions", "NewRequest"},
                             Ret(NilJob, NilSlice, NilResp, rerr))
            ELSE CallDo(c, cl, {"urlWithOptions", "NewRequest"}, NewRequest("GET", u))

\* Get, from what client.Do reported to the return statement
GetResultAlways(d) == Ret(JobPtr(d.job), NilSlice, d.resp, d.err)

GetResultChecksStatus(d) ==
    IF d.err # NoError THEN Ret(NilJob, NilSlice, d.resp, d.err)
    ELSE IF ~d.resp.nil /\ d.resp.StatusCode >= 300
    THEN Ret(NilJob, NilSlice, d.resp, "status")
    ELSE Ret(JobPtr(d.job), NilSlice, d.resp, d.err)

GetResultNilOnZero(d) ==
    IF d.err # NoError THEN Ret(NilJob, NilSlice, d.resp, d.err)
    ELSE IF d.job = ZeroJob THEN Ret(NilJob, NilSlice, d.resp, d.err)
    ELSE Ret(JobPtr(d.job), NilSlice, d.resp, d.err)

GetResult(d) ==
    IF d.err # NoError THEN Ret(NilJob, NilSlice, d.resp, d.err)
    ELSE Ret(JobPtr(d.job), NilSlice, d.resp, d.err)

GetReturnRetries(c) ==
    /\ pc[c] = "inflight"
    /\ call[c].op = "Get"
    /\ \E d \in DoOutcomes("job") :
         IF d.err # NoError /\ trips[c] < 2
         THEN /\ trips' = [trips EXCEPT ![c] = @ + 1]
              /\ do' = [do EXCEPT ![c] = d]
              /\ UNCHANGED <<pc, call, steps, req, ret>>
              /\ UNCHANGED reqVars
         ELSE ReturnAfterDo(c, d, GetResult(d))

GetReturn(c) ==
    /\ pc[c] = "inflight"
    /\ call[c].op = "Get"
    /\ \E d \in DoOutcomes("job") : ReturnAfterDo(c, d, GetResult(d))

\* ListFromBuild, up to its call of client.Do
ListFromBuild(c, buildId) ==
    /\ pc[c] = "idle"
    /\ \E uerr \in URLErrors, rerr \in RequestErrors :
         LET cl == [op |-> "ListFromBuild", id |-> buildId, opt |-> NilOpt, uerr |-> uerr,
                    rerr |-> IF uerr # NoError THEN NoError ELSE rerr]
             u == urlWithOptions(<<"builds", buildId>>, NilOpt)
         IN IF uerr # NoError
            THEN ReturnEarly(c, cl, {"urlWithOptions"},
                             Ret(NilJob, NilSlice, NilResp, uerr))
            ELSE IF rerr # NoError
            THEN ReturnEarly(c, cl, {"urlWithOptions", "NewRequest"},
                             Ret(NilJob, NilSlice, NilResp, rerr))
            ELSE CallDo(c, cl, {"urlWithOptions", "NewRequest"}, NewRequest("GET", u))

\* ListFromBuild, from what client.Do reported to the return statement
ListFromBuildResult(d) ==
    IF d.err # NoError THEN Ret(NilJob, NilSlice, d.resp, d.err)
    ELSE Ret(NilJob, d.jobs, d.resp, d.err)

ListFromBuildReturn(c) ==
    /\ pc[c] = "inflight"
    /\ call[c].op = "ListFromBuild"
    /\ \E d \in DoOutcomes("jobs") : ReturnAfterDo(c, d, ListFromBuildResult(d))

\* Find, up to its call of client.Do
FindUnguarded(c, opt) ==
    /\ pc[c] = "idle"
    /\ \E uerr \in URLErrors, rerr \in RequestErrors :
         LET cl == [op |-> "Find", id |-> 0, opt |-> opt, uerr |-> uerr,
                    rerr |-> IF uerr # NoError THEN NoError ELSE rerr]
             u == urlWithOptions(<<"jobs">>, opt)
         IN IF uerr # NoError
            THEN ReturnEarly(c, cl, {"urlWithOptions"},
                             Ret(NilJob, NilSlice, NilResp, uerr))
            ELSE IF rerr # NoError
            THEN ReturnEarly(c, cl, {"urlWithOptions", "NewRequest"},
                             Ret(NilJob, NilSlice, NilResp, rerr))
            ELSE CallDo(c, cl, {"urlWithOptions", "NewRequest"}, NewRequest("GET", u))

Find(c, opt) ==
    /\ pc[c] = "idle"
    /\ IF ~opt.nil /\ ~IsValid(opt.v)
       THEN ReturnEarly(c, [NoCall EXCEPT !.op = "Find", !.opt = opt], {"IsValid"},
                        Ret(NilJob, NilSlice, NilResp, ErrValidation))
       ELSE \E uerr \in URLErrors, rerr \in RequestErrors :
         LET cl == [op |-> "Find", id |-> 0, opt |-> opt, uerr |-> uerr,
                    rerr |-> IF uerr # NoError THEN NoError ELSE rerr]
             st == IF opt.nil THEN {} ELSE {"IsValid"}
             u == urlWithOptions(<<"jobs">>, opt)
         IN IF uerr # NoError
            THEN ReturnEarly(c, cl, st \cup {"urlWithOptions"},
                             Ret(NilJob, NilSlice, NilResp, uerr))
            ELSE IF rerr # NoError
            THEN ReturnEarly(c, cl, st \cup {"urlWithOptions", "NewRequest"},
                             Ret(NilJob, NilSlice, NilResp, rerr))
            ELSE CallDo(c, cl, st \cup {"urlWithOptions", "NewRequest"},
                        NewRequest("GET", u))

\* Find, from what client.Do reported to the return statement
FindResultAlways(d) == Ret(NilJob, d.jobs, d.resp, d.err)

FindResult(d) ==
    IF d.err # NoError THEN Ret(NilJob, NilSlice, d.resp, d.err)
    ELSE Ret(NilJob, d.jobs, d.resp, d.err)

FindReturnShared(c) ==
    /\ pc[c] = "inflight"
    /\ call[c].op = "Find"
    /\ \E d \in DoOutcomes("jobs") :
         /\ pc' = [pc EXCEPT ![c] = "done"]
         /\ do' = [do EXCEPT ![c] = d]
         /\ ret' = [x \in Callers |->
                      IF x = c \/ (pc[x] = "done" /\ call[x].op = "Find" /\ "Do" \in steps[x])
                      THEN FindResult(d) ELSE ret[x]]
         /\ UNCHANGED <<call, steps, req, trips>>
         /\ UNCHANGED reqVars

FindReturn(c) ==
    /\ pc[c] = "inflight"
    /\ call[c].op = "Find"
    /\ \E d \in DoOutcomes("jobs") : ReturnAfterDo(c, d, FindResult(d))

\* Cancel, up to its call of client.Do
Cancel(c, id) ==
    /\ pc[c] = "idle"
    /\ \E uerr \in URLErrors, rerr \in RequestErrors :
         LET cl == [op |-> "Cancel", id |-> id, opt |-> NilOpt, uerr |-> uerr,
                    rerr |-> IF uerr # NoError THEN NoError ELSE rerr]
             u == urlWithOptions(<<"jobs", id, "cancel">>, NilOpt)
         IN IF uerr # NoError
            THEN ReturnEarly(c, cl, {"urlWithOptions"},
                             Ret(NilJob, NilSlice, NilResp, uerr))
            ELSE IF rerr # NoError
            THEN ReturnEarly(c, cl, {"urlWithOptions", "NewRequest"},
                             Ret(NilJob, NilSlice, NilResp, rerr))
            ELSE CallDo(c, cl, {"urlWithOptions", "NewRequest"}, NewRequest("POST", u))

\* Cancel, from what client.Do reported to the return statement
CancelResult(d) ==
    IF d.err # NoError THEN Ret(NilJob, NilSlice, d.resp, d.err)
    ELSE Ret(NilJob, NilSlice, d.resp, d.err)

CancelReturn(c) ==
    /\ pc[c] = "inflight"
    /\ call[c].op = "Cancel"
    /\ \E d \in DoOutcomes("none") : ReturnAfterDo(c, d, CancelResult(d))

\* Restart, up to its call of client.Do
Restart(c, id) ==
    /\ pc[c] = "idle"
    /\ \E uerr \in URLErrors, rerr \in RequestErrors :
         LET cl == [op |-> "Restart", id |-> id, opt |-> NilOpt, uerr |-> uerr,
                    rerr |-> IF uerr # NoError THEN NoError ELSE rerr]
             u == urlWithOptions(<<"jobs", id, "restart">>, NilOpt)
         IN IF uerr # NoError
            THEN ReturnEarly(c, cl, {"urlWithOptions"},
                             Ret(NilJob, NilSlice, NilResp, uerr))
            ELSE IF rerr # NoError
            THEN ReturnEarly(c, cl, {"urlWithOptions", "NewRequest"},
                             Ret(NilJob, NilSlice, NilResp, rerr))
            ELSE CallDo(c, cl, {"urlWithOptions", "NewRequest"}, NewRequest("POST", u))

\* Restart, from what client.Do reported to the return statement
RestartResult(d) ==
    IF d.err # NoError THEN Ret(NilJob, NilSlice, d.resp, d.err)
    ELSE Ret(NilJob, NilSlice, d.resp, d.err)

RestartReturn(c) ==
    /\ pc[c] = "inflight"
    /\ call[c].op = "Restart"
    /\ \E d \in DoOutcomes("none") : ReturnAfterDo(c, d, RestartResult(d))

\* the caller has taken the returned values and is free to call again
Finish(c) ==
    /\ pc[c] = "done"
    /\ pc' = [pc EXCEPT ![c] = "idle"]
    /\ call' = [call EXCEPT ![c] = NoCall]
    /\ steps' = [steps EXCEPT ![c] = {}]
    /\ req' = [req EXCEPT ![c] = NoRequest]
    /\ trips' = [trips EXCEPT ![c] = 0]
    /\ do' = [do EXCEPT ![c] = NoOutcome]
    /\ ret' = [ret EXCEPT ![c] = NoRet]
    /\ UNCHANGED reqVars

\* -------------------------------------------------------- requests service
\* The repository of the integration tests, addressed by id or by slug, and
\* another repository of the same server.
IntegrationRepo == "integration"
Repos == {IntegrationRepo, "other"}
Tests == {"ById", "BySlug"}

\* *Request
NilRequest == [nil |-> TRUE, Id |-> 0]
RequestPtr(id) == [nil |-> FALSE, Id |-> id]
NoResult == [request |-> NilRequest, resp |-> NilResp, err |-> NoError]

\* POST /repos/{repo}/requests on a server that accepts the creation: 202 and
\* the created request, which gets the server's next id
CreateByRepo(repo) ==
    [request |-> RequestPtr(nextId), resp |-> Resp(202), err |-> NoError]

\* GET /repos/{repo}/requests/{id}: 200 and the request of that repository with
\* that id, 404 and no record when the repository holds none
FindByRepoLatest(repo, id) ==
    LET ids == {r[2] : r \in {x \in store : x[1] = repo}}
    IN IF ids # {}
       THEN [request |-> RequestPtr(CHOOSE i \in ids : \A j \in ids : j <= i),
             resp |-> Resp(200), err |-> NoError]
       ELSE [request |-> RequestPtr(0), resp |-> Resp(404), err |-> NoError]

FindByRepo(repo, id) ==
    IF <<repo, id>> \in store
    THEN [request |-> RequestPtr(id), resp |-> Resp(200), err |-> NoError]
    ELSE [request |-> RequestPtr(0), resp |-> Resp(404), err |-> NoError]

\* the server stores a created request
Accept(repo) ==
    /\ nextId <= MaxRequests
    /\ store' = store \cup {<<repo, nextId>>}
    /\ nextId' = nextId + 1

\* TestRequestService_CreateAndFindById / ...BySlug: the create call and the
\* checks of what it returned
TestCreate(t) ==
    /\ tpc[t] = "start"
    /\ Accept(IntegrationRepo)
    /\ LET r == CreateByRepo(IntegrationRepo)
       IN /\ created' = [created EXCEPT ![t] = r]
          /\ tpc' = [tpc EXCEPT ![t] =
                IF r.err # NoError THEN "failed"
                ELSE IF r.resp.StatusCode # 202 THEN "failed"
                ELSE "created"]
    /\ UNCHANGED found
    /\ UNCHANGED jobVars

\* the find call with the created id and the checks of what it returned
TestFind(t) ==
    /\ tpc[t] = "created"
    /\ LET r == FindByRepo(IntegrationRepo, created[t].request.Id)
       IN /\ found' = [found EXCEPT ![t] = r]
          /\ tpc' = [tpc EXCEPT ![t] =
                IF r.err # NoError THEN "failed"
                ELSE IF r.resp.StatusCode # 200 THEN "failed"
                ELSE IF r.request.Id # created[t].request.Id THEN "failed"
                ELSE "passed"]
    /\ UNCHANGED <<created, store, nextId>>
    /\ UNCHANGED jobVars

\* the test is run again
TestRerun(t) ==
    /\ tpc[t] = "passed"
    /\ tpc' = [tpc EXCEPT ![t] = "start"]
    /\ created' = [created EXCEPT ![t] = NoResult]
    /\ found' = [found EXCEPT ![t] = NoResult]
    /\ UNCHANGED <<store, nextId>>
    /\ UNCHANGED jobVars

\* another client of the same server creates a request
OtherCreate(repo) ==
    /\ Accept(repo)
    /\ UNCHANGED <<tpc, created, found>>
    /\ UNCHANGED jobVars

\* ---------------------------------------------------------- specification
Init ==
    /\ pc = [c \in Callers |-> "idle"]
    /\ call = [c \in Callers |-> NoCall]
    /\ steps = [c \in Callers |-> {}]
    /\ req = [c \in Callers |-> NoRequest]
    /\ trips = [c \in Callers |-> 0]
    /\ do = [c \in Callers |-> NoOutcome]
    /\ ret = [c \in Callers |-> NoRet]
    /\ tpc = [t \in Tests |-> "start"]
    /\ created = [t \in Tests |-> NoResult]
    /\ found = [t \in Tests |-> NoResult]
    /\ store = {}
    /\ nextId = 1

Next ==
    \/ \E c \in Callers, jfo \in JobFindOptions : CheckOptions(c, jfo)
    \/ \E c \in Callers, id \in 1..MaxId : Get(c, id)
    \/ \E c \in Callers : GetReturn(c)
    \/ \E c \in Callers, id \in 1..MaxId : ListFromBuild(c, id)
    \/ \E c \in Callers : ListFromBuildReturn(c)
    \/ \E c \in Callers, opt \in OptPtrs : Find(c, opt)
    \/ \E c \in Callers : FindReturn(c)
    \/ \E c \in Callers, id \in 1..MaxId : Cancel(c, id)
    \/ \E c \in Callers : CancelReturn(c)
    \/ \E c \in Callers, id \in 1..MaxId : Restart(c, id)
    \/ \E c \in Callers : RestartReturn(c)
    \/ \E c \in Callers : Finish(c)

Spec == Init /\ [][Next]_vars

NextRequests ==
    \/ \E t \in Tests : TestCreate(t)
    \/ \E t \in Tests : TestFind(t)
    \/ \E t \in Tests : TestRerun(t)
    \/ \E repo \in Repos : OtherCreate(repo)

SpecRequests == Init /\ [][NextRequests]_vars

\* ------------------------------------------------------------------ claims
ServiceOps == {"Get", "ListFromBuild", "Find", "Cancel", "Restart"}

\* the number of top-level fields of a JobFindOptions holding a non-zero value
NonZeroFieldCount(o) ==
    (IF o.ListOptions.Page # 0 THEN 1 ELSE 0)
    + (IF o.Ids # NilSlice THEN 1 ELSE 0)
    + (IF o.State # "" THEN 1 ELSE 0)
    + (IF o.Queue # "" THEN 1 ELSE 0)

\* the number of mutually exclusive filters (Ids, State, Queue) a record sets;
\* an Ids slice without elements sets no filter
FilterCount(o) ==
    (IF o.Ids.elems # <<>> THEN 1 ELSE 0)
    + (IF o.State # "" THEN 1 ELSE 0)
    + (IF o.Queue # "" THEN 1 ELSE 0)

Checked(c) == pc[c] = "done" /\ call[c].op = "IsValid"
Returned(c) == pc[c] = "done" /\ call[c].op \in ServiceOps
Rejected(c) == call[c].op = "Find" /\ ~call[c].opt.nil /\ ~IsValid(call[c].opt.v)

C2_InvalidFindShortCircuits ==
    \A c \in Callers :
        (pc[c] # "idle" /\ Rejected(c)) =>
            /\ pc[c] = "done"
            /\ ret[c].err # NoError
            /\ ret[c].jobs = NilSlice
            /\ ret[c].resp = NilResp
            /\ steps[c] = {"IsValid"}
            /\ req[c] = NoRequest
            /\ trips[c] = 0

C2_Witness ==
    \E c \in Callers :
        /\ pc[c] = "done" /\ Rejected(c)
        /\ call[c].opt.v.State # "" /\ call[c].opt.v.Queue # ""
        /\ ret[c].err = ErrValidation

\* C3: IsValid returns true if and only if exactly one field of the record
\* holds a non-zero value.
C3_IsValidExactlyOne ==
    \A c \in Callers :
        Checked(c) => (ret[c].valid <=> NonZeroFieldCount(call[c].opt.v) = 1)

\* C4: Find called with a record that sets exactly one of Ids, State, Queue
\* together with non-default pagination passes validation, and the request it
\* issues is a GET on /jobs whose query carries the filter and the pagination.
C4_FilterWithPaginationAccepted ==
    \A c \in Callers :
        (/\ pc[c] # "idle" /\ call[c].op = "Find" /\ ~call[c].opt.nil
         /\ FilterCount(call[c].opt.v) = 1
         /\ (call[c].opt.v.Ids.elems = <<>> => call[c].opt.v.Ids = NilSlice)
         /\ call[c].opt.v.ListOptions.Page # 0) =>
            /\ ret[c].err # ErrValidation
            /\ "urlWithOptions" \in steps[c]
            /\ "Do" \in steps[c] =>
                 /\ req[c].method = "GET"
                 /\ req[c].url.path = <<"jobs">>
                 /\ req[c].url.query.page = call[c].opt.v.ListOptions.Page
                 /\ req[c].url.query.ids = call[c].opt.v.Ids.elems
                 /\ req[c].url.query.state = call[c].opt.v.State
                 /\ req[c].url.query.queue = call[c].opt.v.Queue

\* C5: an operation of the jobs service returns a non-nil error only when the
\* options validation, the URL construction, the request construction or the
\* round trip failed; when the round trip reports no error, the response is
\* returned as reported, whatever its status, with a nil error.
C5_ErrorOnlyOnFailure ==
    \A c \in Callers :
        Returned(c) =>
            /\ ret[c].err # NoError =>
                 \/ Rejected(c)
                 \/ call[c].uerr # NoError
                 \/ call[c].rerr # NoError
                 \/ ("Do" \in steps[c] /\ do[c].err # NoError)
            /\ ("Do" \in steps[c] /\ do[c].err = NoError) =>
                 /\ ret[c].err = NoError
                 /\ ret[c].resp = do[c].resp

\* a 404 reported without error came back from Get as it was, with a nil error,
\* and a 202 came back from Cancel or Restart in the same way
C5_Witness ==
    \E c, d \in Callers :
        /\ Returned(c) /\ call[c].op = "Get" /\ do[c].err = NoError
        /\ do[c].resp = Resp(404) /\ ret[c].resp = Resp(404) /\ ret[c].err = NoError
        /\ Returned(d) /\ call[d].op \in {"Cancel", "Restart"} /\ do[d].err = NoError
        /\ do[d].resp = Resp(202) /\ ret[d].resp = Resp(202) /\ ret[d].err = NoError

\* C6: when the round trip of Get, ListFromBuild or Find ends with an error,
\* the operation returns a nil typed result, the error as reported and the
\* response as reported; nothing decoded is returned together with an error.
C6_TransportErrorPropagates ==
    \A c \in Callers :
        (/\ Returned(c) /\ call[c].op \in {"Get", "ListFromBuild", "Find"}
         /\ "Do" \in steps[c] /\ do[c].err # NoError) =>
            /\ ret[c].job = NilJob
            /\ ret[c].jobs = NilSlice
            /\ ret[c].err = do[c].err
            /\ ret[c].resp = do[c].resp

\* a decode failure that left a decoded job list behind, and a cancellation
\* without any response
C6_Witness ==
    \E c, d \in Callers :
        /\ Returned(c) /\ call[c].op = "Find" /\ do[c].err = "decode"
        /\ do[c].jobs # NilSlice /\ ~do[c].resp.nil
        /\ ret[c].jobs = NilSlice /\ ret[c].err = "decode" /\ ret[c].resp = do[c].resp
        /\ Returned(d) /\ call[d].op = "Get" /\ do[d].err = "context"
        /\ do[d].resp = NilResp /\ ret[d].job = NilJob /\ ret[d].err = "context"

\* the round trips a call has made, by its position
C7_RoundTrips ==
    \A c \in Callers :
        /\ trips[c] <= 1
        /\ pc[c] = "inflight" => trips[c] = 1
        /\ (pc[c] = "done" /\ "Do" \in steps[c]) => trips[c] = 1

\* the step that ends a round trip ends the call, without another round trip
C7_ReturnsAfterRoundTrip ==
    \A c \in Callers :
        (pc[c] = "inflight" /\ (pc'[c] # pc[c] \/ do'[c] # do[c])) =>
            (pc'[c] = "done" /\ trips'[c] = trips[c])

\* C7: a call of Get, ListFromBuild, Find, Cancel or Restart makes at most one
\* round trip, whatever its outcome, and returns after it.
C7_AtMostOneRoundTrip == [](C7_RoundTrips) /\ [][C7_ReturnsAfterRoundTrip]_vars

\* a failed round trip and a 404 round trip, each followed by the return
C7_Witness ==
    \E c, d \in Callers :
        /\ Returned(c) /\ "Do" \in steps[c] /\ do[c].err = "connection" /\ trips[c] = 1
        /\ Returned(d) /\ "Do" \in steps[d] /\ do[d].err = NoError
        /\ do[d].resp = Resp(404) /\ trips[d] = 1

\* two calls with the same arguments hand the same request to the transport,
\* and return the same values when the transport reported the same to them
C9_OwnInputsDecide ==
    \A c, d \in Callers :
        /\ (pc[c] # "idle" /\ pc[d] # "idle" /\ call[c] = call[d]) =>
             (steps[c] = steps[d] /\ req[c] = req[d])
        /\ (pc[c] = "done" /\ pc[d] = "done" /\ call[c] = call[d] /\ do[c] = do[d]) =>
             ret[c] = ret[d]

\* a step leaves alone the state of every call whose position it does not move
C9_NoForeignWrite ==
    \A c \in Callers :
        pc'[c] = pc[c] =>
            /\ call'[c] = call[c] /\ steps'[c] = steps[c] /\ req'[c] = req[c]
            /\ trips'[c] = trips[c] /\ do'[c] = do[c] /\ ret'[c] = ret[c]

\* C9: concurrent calls are independent: what a call hands to the transport
\* and what it returns are determined by its own arguments and by what the
\* transport reported to it, and a step of one call changes nothing of another.
C9_CallsIndependent == [](C9_OwnInputsDecide) /\ [][C9_NoForeignWrite]_vars

\* two callers ran the same Find concurrently, the transport reported different
\* things to them, and each returned what was reported to itself
C9_Witness ==
    \E c, d \in Callers :
        /\ c # d /\ pc[c] = "done" /\ pc[d] = "done"
        /\ call[c].op = "Find" /\ call[c] = call[d]
        /\ "Do" \in steps[c] /\ "Do" \in steps[d]
        /\ do[c].err = NoError /\ do[d].err = NoError /\ do[c].jobs # do[d].jobs
        /\ ret[c].jobs = do[c].jobs /\ ret[d].jobs = do[d].jobs

\* C10: Get returns a nil job exactly when it returns a non-nil error; when the
\* round trip reports no error the job is non-nil and is the decoded record,
\* the zero-valued one when nothing was decoded into it.
C10_GetNilJobIffError ==
    \A c \in Callers :
        (Returned(c) /\ call[c].op = "Get") =>
            /\ ret[c].job.nil <=> ret[c].err # NoError
            /\ ("Do" \in steps[c] /\ do[c].err = NoError) =>
                 (~ret[c].job.nil /\ ret[c].job.v = do[c].job)

\* a 404 without error and without a decoded job: a non-nil, zero-valued job
C10_Witness ==
    \E c \in Callers :
        /\ Returned(c) /\ call[c].op = "Get"
        /\ do[c].resp = Resp(404) /\ do[c].err = NoError /\ do[c].job = ZeroJob
        /\ ret[c].job = JobPtr(ZeroJob) /\ ret[c].err = NoError

\* C8: against a server that accepts request creation, the create call returns
\* no error, status 202 and a created request id, and the later find call for
\* the same repository with that id returns no error, status 200 and a record
\* with the created id.
C8_CreateThenFind ==
    \A t \in Tests :
        /\ tpc[t] # "failed"
        /\ tpc[t] \in {"created", "passed"} =>
             /\ created[t].err = NoError
             /\ created[t].resp = Resp(202)
             /\ ~created[t].request.nil
             /\ <<IntegrationRepo, created[t].request.Id>> \in store
        /\ tpc[t] = "passed" =>
             /\ found[t].err = NoError
             /\ found[t].resp = Resp(200)
             /\ ~found[t].request.nil
             /\ found[t].request.Id = created[t].request.Id

\* both tests passed, each on the request it created itself, while the server
\* also holds a request of another repository
C8_Witness ==
    /\ tpc["ById"] = "passed" /\ tpc["BySlug"] = "passed"
    /\ created["ById"].request.Id < created["BySlug"].request.Id
    /\ found["ById"].request.Id = created["ById"].request.Id
    /\ found["BySlug"].request.Id = created["BySlug"].request.Id
    /\ \E i \in 1..MaxRequests : <<"other", i>> \in store
====
